---------------------------- MODULE Spec2Model ----------------------------
(***************************************************************************)
(* Model of the query safety-and-execution pipeline of ai_sql_agent:       *)
(* the lexical safety validator (src/src/database.py), the execution       *)
(* backend run_sql_query, the legacy executor of src/run_sql.py, the       *)
(* JSON query log (src/src/logger.py) and the /chat, /history handlers of  *)
(* src/server.py.                                                          *)
(*                                                                         *)
(* A query text is a sequence of one-character strings, so that strip(),   *)
(* upper(), startswith() and the regular expression of the validator are   *)
(* computed character by character, as Python computes them.               *)
(***************************************************************************)
EXTENDS Integers, Sequences, FiniteSets, TLC

(***************************************************************************)
(* Bounds of the model.                                                    *)
(***************************************************************************)
\* longest query, in lexical fragments, given to the validator alone
MaxFrags == 4
\* number of concurrent /chat turns
NumTurns == 2
\* longest query, in lexical fragments, given to the query-execution functions
MaxExecFrags == 3
\* longest text of the SQL generator, in fragments, given to extract_sql
MaxTextFrags == 5
\* longest chat history, in turns, given to reformulate_question
MaxHistory == 7
\* most rows, and most columns of a kind, of a result given to
\* analyze_data_for_chart
MaxRows == 3
MaxColumns == 2

(***************************************************************************)
(* Characters.                                                             *)
(***************************************************************************)
LowerLetters ==
    <<"a","b","c","d","e","f","g","h","i","j","k","l","m",
      "n","o","p","q","r","s","t","u","v","w","x","y","z">>

UpperLetters ==
    <<"A","B","C","D","E","F","G","H","I","J","K","L","M",
      "N","O","P","Q","R","S","T","U","V","W","X","Y","Z">>

Digits == {"0","1","2","3","4","5","6","7","8","9"}

\* str.isspace() / the class \s of the re module, on the characters used
IsSpace(c) == c \in {" ", "\t", "\n", "\r"}

IsLower(c) == \E i \in 1..26 : LowerLetters[i] = c

IsUpper(c) == \E i \in 1..26 : UpperLetters[i] = c

\* the character U+212A, KELVIN SIGN: a letter that str.upper() leaves as it
\* is and str.lower() turns into k
KelvinSign == "KELVIN"

\* the class \w of the re module
IsWordChar(c) ==
    IsLower(c) \/ IsUpper(c) \/ c \in Digits \/ c = "_" \/ c = KelvinSign

\* str.upper() on one character
UpperChar(c) ==
    IF IsLower(c)
    THEN UpperLetters[CHOOSE i \in 1..26 : LowerLetters[i] = c]
    ELSE c

\* str.lower() on one character
LowerChar(c) ==
    IF IsUpper(c)
    THEN LowerLetters[CHOOSE i \in 1..26 : UpperLetters[i] = c]
    ELSE IF c = KelvinSign THEN "k"
    ELSE c

\* str.upper()
Upper(s) == [i \in 1..Len(s) |-> UpperChar(s[i])]

\* str.strip(): drop the leading and the trailing whitespace
Strip(s) ==
    IF \A i \in 1..Len(s) : IsSpace(s[i])
    THEN << >>
    ELSE LET first == CHOOSE i \in 1..Len(s) :
                         /\ ~IsSpace(s[i])
                         /\ \A j \in 1..(i-1) : IsSpace(s[j])
             last  == CHOOSE i \in 1..Len(s) :
                         /\ ~IsSpace(s[i])
                         /\ \A j \in (i+1)..Len(s) : IsSpace(s[j])
         IN  SubSeq(s, first, last)

\* str.startswith(prefix)
StartsWith(s, prefix) ==
    /\ Len(prefix) <= Len(s)
    /\ SubSeq(s, 1, Len(prefix)) = prefix

\* the text kw stands in s at position i
OccursAt(s, kw, i) ==
    /\ i >= 1
    /\ i + Len(kw) - 1 <= Len(s)
    /\ SubSeq(s, i, i + Len(kw) - 1) = kw

\* a slip: the pattern written without its closing \b
Mut_WordBoundary(s, i) == TRUE

\* \b of the re module between s[i-1] and s[i]
WordBoundary(s, i) ==
    LET before == i > 1 /\ i - 1 <= Len(s) /\ IsWordChar(s[i-1])
        after  == i >= 1 /\ i <= Len(s) /\ IsWordChar(s[i])
    IN  before # after

(***************************************************************************)
(* validate_sql_safety                                                     *)
(***************************************************************************)
forbidden_keywords ==
    << <<"U","P","D","A","T","E">>,
       <<"D","E","L","E","T","E">>,
       <<"D","R","O","P">>,
       <<"A","L","T","E","R">>,
       <<"I","N","S","E","R","T">>,
       <<"C","R","E","A","T","E">>,
       <<"R","E","P","L","A","C","E">>,
       <<"T","R","U","N","C","A","T","E">>,
       <<"G","R","A","N","T">>,
       <<"R","E","V","O","K","E">> >>

allowed_starts ==
    << <<"S","E","L","E","C","T">>,
       <<"W","I","T","H">>,
       <<"P","R","A","G","M","A">>,
       <<"E","X","P","L","A","I","N">> >>

None == "None"

NoError == None

AllowListError ==
    "Safety Violation: Only SELECT, WITH, PRAGMA, and EXPLAIN statements are allowed."

ChainedError ==
    "Safety Violation: Potentially destructive chained command detected."

\* the match of ;\s*(kw)\b beginning at position i of s
PatternMatchesAt(s, kw, i) ==
    /\ i <= Len(s)
    /\ s[i] = ";"
    /\ \E j \in (i+1)..Len(s) :
          /\ \A k \in (i+1)..(j-1) : IsSpace(s[k])
          /\ OccursAt(s, kw, j)
          /\ WordBoundary(s, j + Len(kw))

\* re.search(r";\s*(UPDATE|...|REVOKE)\b", s)
PatternSearch(s) ==
    \E i \in 1..Len(s) :
       \E n \in 1..Len(forbidden_keywords) :
          PatternMatchesAt(s, forbidden_keywords[n], i)

\* a slip: any(keyword in query_upper for keyword in allowed_starts)
Mut_StartsAllowed(query_upper) ==
    \E n \in 1..Len(allowed_starts) :
       \E i \in 1..Len(query_upper) : OccursAt(query_upper, allowed_starts[n], i)

\* any(query_upper.startswith(keyword) for keyword in allowed_starts)
StartsAllowed(query_upper) ==
    \E n \in 1..Len(allowed_starts) : StartsWith(query_upper, allowed_starts[n])

\* a slip: re.search(pattern, query.strip()), the text not upper-cased
Mut_validate_sql_safety(query) ==
    LET query_upper == Upper(Strip(query))
    IN  IF ~StartsAllowed(query_upper)
        THEN AllowListError
        ELSE IF PatternSearch(Strip(query))
             THEN ChainedError
             ELSE NoError

validate_sql_safety(query) ==
    LET query_upper == Upper(Strip(query))
    IN  IF ~StartsAllowed(query_upper)
        THEN AllowListError
        ELSE IF PatternSearch(query_upper)
             THEN ChainedError
             ELSE NoError


(***************************************************************************)
(* Query texts given to the validator: every sequence of at most MaxFrags  *)
(* lexical fragments, a fragment being an allowed start keyword, a         *)
(* forbidden keyword, a semicolon, a whitespace character or a word        *)
(* character, the keywords written in one of three letter cases.           *)
(***************************************************************************)
Tokens == {"allowed", "forbidden", "semi", "space", "word"}

Styles == {"upper", "lower", "capitalized"}

\* the keyword kw written in the letter case of the style
InCase(kw, style) ==
    [i \in 1..Len(kw) |->
        IF style = "upper" \/ (style = "capitalized" /\ i = 1)
        THEN UpperChar(kw[i])
        ELSE LowerChar(kw[i])]

SpaceOf(style) ==
    IF style = "upper" THEN " " ELSE IF style = "lower" THEN "\n" ELSE "\t"

Fragment(tok, a, f, style) ==
    IF tok = "allowed" THEN InCase(allowed_starts[a], style)
    ELSE IF tok = "forbidden" THEN InCase(forbidden_keywords[f], style)
    ELSE IF tok = "semi" THEN <<";">>
    ELSE IF tok = "space" THEN <<SpaceOf(style)>>
    ELSE <<"x">>

RECURSIVE Render(_, _, _, _)
Render(shape, a, f, style) ==
    IF shape = << >>
    THEN << >>
    ELSE Fragment(Head(shape), a, f, style) \o Render(Tail(shape), a, f, style)

Shapes == UNION {[1..n -> Tokens] : n \in 0..MaxFrags}

\* a query text with a letter outside ASCII: REVOKE written with U+212A
UnicodeQueries ==
    { <<"s","e","l","e","c","t"," ","x",";"," ",
        "R","E","V","O",KelvinSign,"E">> }

(***************************************************************************)
(* Values of the program.                                                  *)
(***************************************************************************)
Procs == 1..NumTurns

\* None, where a text or a list held as a sequence may stand
NoneSeq == <<"<None>">>

\* Python's truth value of a message: None and "" are false
Truthy(x) == x # None /\ x # ""

\* Python's truth value of a text or a list: None, "" and [] are false
TruthySeq(x) == x # NoneSeq /\ x # << >>

\* texts the SQL generator hands to /chat
TurnQueries ==
    { <<"S","E","L","E","C","T"," ","x">>,
      <<"s","e","l","e","c","t"," ","x",";"," ","d","r","o","p"," ","x">>,
      <<"D","E","L","E","T","E"," ","x">> }

\* the refusal statement the generator prompt prescribes
RefusalStatement ==
    <<"S","E","L","E","C","T"," ","'","I"," ","c","a","n"," ","o","n","l","y",
      " ","a","n","s","w","e","r"," ","q","u","e","s","t","i","o","n","s"," ",
      "a","b","o","u","t"," ","t","h","e"," ","c","o","n","n","e","c","t","e",
      "d"," ","d","a","t","a","b","a","s","e",".","'"," ","A","S"," ",
      "S","e","r","v","i","c","e","_","M","e","s","s","a","g","e",";">>

TurnDigits == <<"1","2","3","4","5","6","7","8","9">>

\* request.question of turn p: absent, blank, or a question of its own
Questions(p) == { << >>, <<" ">>, <<"q", TurnDigits[p]>> }

\* rows of a result set, as dict(zip(columns, row)) builds them
SomeRows == << "row" >>

Timestamp == "now"

\* the entry log_query builds
LogEntry(q, sql, success, error_message) ==
    [timestamp |-> Timestamp, question |-> q, sql_query |-> sql,
     success |-> success, error_message |-> error_message]

\* an entry written by an earlier run of the program
OldEntry ==
    LogEntry(<<"q", "0">>, <<"S","E","L","E","C","T"," ","x">>, TRUE, None)

(***************************************************************************)
(* extract_sql: the SQL statement in the free text of the collaborator.    *)
(***************************************************************************)
\* the backquote character, written by its name
Backquote == "BQ"

\* the fence of a code block: three backquotes
Fence == <<Backquote, Backquote, Backquote>>

\* the fence that opens a block tagged sql
SqlFence == Fence \o <<"s","q","l">>

\* re.search(fence sql \s* (.*?) fence, text, re.DOTALL): the match starts
\* at the leftmost opening fence that a fence follows; \s* takes all the
\* whitespace behind it and .*? runs up to the next fence.
\* <<TRUE, group(1)>> for a match, <<FALSE, << >> >> for none
FenceSearch(text) ==
    LET Opens(i) ==
           /\ OccursAt(text, SqlFence, i)
           /\ \E j \in (i + Len(SqlFence))..Len(text) : OccursAt(text, Fence, j)
    IN  IF \E i \in 1..Len(text) : Opens(i)
        THEN LET i == CHOOSE k \in 1..Len(text) :
                         Opens(k) /\ \A m \in 1..(k-1) : ~Opens(m)
                 start == CHOOSE k \in (i + Len(SqlFence))..Len(text) :
                             /\ ~IsSpace(text[k])
                             /\ \A m \in (i + Len(SqlFence))..(k-1) :
                                   IsSpace(text[m])
                 stop == CHOOSE j \in start..Len(text) :
                            /\ OccursAt(text, Fence, j)
                            /\ \A m \in start..(j-1) : ~OccursAt(text, Fence, m)
             IN  <<TRUE, SubSeq(text, start, stop - 1)>>
        ELSE <<FALSE, << >> >>

\* a slip: group(1) returned as it is, without strip()
Mut_extract_sql(text) ==
    LET match == FenceSearch(text)
    IN  IF match[1]
        THEN match[2]
        ELSE LET stripped == Strip(text)
             IN  IF \/ StartsWith(Upper(stripped), <<"S","E","L","E","C","T">>)
                    \/ StartsWith(Upper(stripped), <<"W","I","T","H">>)
                 THEN stripped
                 ELSE stripped

\* extract_sql(text)
extract_sql(text) ==
    LET match == FenceSearch(text)
    IN  IF match[1]
        THEN Strip(match[2])
        ELSE LET stripped == Strip(text)
             IN  IF \/ StartsWith(Upper(stripped), <<"S","E","L","E","C","T">>)
                    \/ StartsWith(Upper(stripped), <<"W","I","T","H">>)
                 THEN stripped
                 ELSE stripped

\* texts of the collaborator: fragments put one after the other
TextTokens == {"open", "fence", "space", "newline", "select", "with", "word"}

TextFragment(tok) ==
    IF tok = "open" THEN SqlFence
    ELSE IF tok = "fence" THEN Fence
    ELSE IF tok = "space" THEN <<" ">>
    ELSE IF tok = "newline" THEN <<"\n">>
    ELSE IF tok = "select" THEN <<"S","E","L","E","C","T"," ","1">>
    ELSE IF tok = "with" THEN <<"w","i","t","h"," ","c">>
    ELSE <<"x">>

RECURSIVE RenderText(_)
RenderText(shape) ==
    IF shape = << >>
    THEN << >>
    ELSE TextFragment(Head(shape)) \o RenderText(Tail(shape))

RawContents ==
    { RenderText(shape) :
         shape \in UNION {[1..n -> TextTokens] : n \in 0..MaxTextFrags} }

(***************************************************************************)
(* reformulate_question and the history text it gives the collaborator.    *)
(***************************************************************************)
\* str.lower()
Lower(s) == [i \in 1..Len(s) |-> LowerChar(s[i])]

\* str.capitalize(): the first character in upper case, the rest in lower
Capitalize(s) ==
    [i \in 1..Len(s) |-> IF i = 1 THEN UpperChar(s[i]) ELSE LowerChar(s[i])]

\* kw in s
Contains(s, kw) == \E i \in 1..(Len(s) + 1) : OccursAt(s, kw, i)

\* a turn of the history: a dict with role, content and maybe sql, a tuple
\* (role, content), or something else
Message(kind, role, content, sql) ==
    [kind |-> kind, role |-> role, content |-> content, sql |-> sql]

\* formatted_entry of one message
FormatEntry(msg) ==
    LET sql == IF msg.kind = "dict" THEN msg.sql ELSE NoneSeq
    IN  Capitalize(msg.role) \o <<":", " ">> \o msg.content \o
        ( IF TruthySeq(sql)
          THEN <<"\n","(","C","o","n","t","e","x","t"," ","S","Q","L",":"," ">>
               \o sql \o <<")">>
          ELSE << >> )

\* "\n".join(entries)
RECURSIVE JoinLines(_)
JoinLines(entries) ==
    IF entries = << >> THEN << >>
    ELSE IF Len(entries) = 1 THEN entries[1]
    ELSE entries[1] \o <<"\n">> \o JoinLines(Tail(entries))

\* the messages of a list that are dicts, or tuples of two or more
RECURSIVE Formattable(_)
Formattable(msgs) ==
    IF msgs = << >> THEN << >>
    ELSE IF Head(msgs).kind \in {"dict", "tuple"}
         THEN <<Head(msgs)>> \o Formattable(Tail(msgs))
         ELSE Formattable(Tail(msgs))

\* chat_history[-6:]
LastSix(chat_history) ==
    IF Len(chat_history) <= 6 THEN chat_history
    ELSE SubSeq(chat_history, Len(chat_history) - 5, Len(chat_history))

\* a slip: the loop over chat_history in place of chat_history[-6:]
Mut_get_chat_history_str(chat_history) ==
    IF chat_history = << >>
    THEN <<"N","o"," ","h","i","s","t","o","r","y",".">>
    ELSE LET kept == Formattable(chat_history)
         IN  JoinLines([i \in 1..Len(kept) |-> FormatEntry(kept[i])])

\* get_chat_history_str(chat_history)
get_chat_history_str(chat_history) ==
    IF chat_history = << >>
    THEN <<"N","o"," ","h","i","s","t","o","r","y",".">>
    ELSE LET kept == Formattable(LastSix(chat_history))
         IN  JoinLines([i \in 1..Len(kept) |-> FormatEntry(kept[i])])

\* keywords of detect_comparison_keywords, in their order, with their types
keywords ==
    << <<<<"v","s">>, "versus">>,
       <<<<"v","e","r","s","u","s">>, "versus">>,
       <<<<"c","o","m","p","a","r","e","d"," ","t","o">>, "comparison">>,
       <<<<"c","o","m","p","a","r","e","d"," ","w","i","t","h">>, "comparison">>,
       <<<<"d","i","f","f","e","r","e","n","c","e">>, "difference">>,
       <<<<"g","r","o","w","t","h">>, "growth">>,
       <<<<"c","h","a","n","g","e">>, "change">>,
       <<<<"i","n","c","r","e","a","s","e","d">>, "trend">>,
       <<<<"d","e","c","r","e","a","s","e","d">>, "trend">>,
       <<<<"h","i","g","h","e","r">>, "comparison">>,
       <<<<"l","o","w","e","r">>, "comparison">>,
       <<<<"i","m","p","r","o","v","e","m","e","n","t">>, "trend">>,
       <<<<"d","e","c","l","i","n","e">>, "trend">>,
       <<<<"q","u","a","r","t","e","r">>, "time_period">>,
       <<<<"m","o","n","t","h">>, "time_period">>,
       <<<<"y","e","a","r">>, "time_period">>,
       <<<<"l","a","s","t">>, "time_reference">>,
       <<<<"p","r","e","v","i","o","u","s">>, "time_reference">> >>

\* detect_comparison_keywords(question): <<is_comparison, comp_type>>
detect_comparison_keywords(question) ==
    LET question_lower == Lower(question)
        Hit(k) == Contains(question_lower, keywords[k][1])
    IN  IF \E k \in 1..Len(keywords) : Hit(k)
        THEN LET k == CHOOSE j \in 1..Len(keywords) :
                         Hit(j) /\ \A m \in 1..(j-1) : ~Hit(m)
             IN  <<TRUE, keywords[k][2]>>
        ELSE <<FALSE, None>>

\* what the collaborator does when asked: get_llm() finds no API key, the
\* call fails, or a text comes back
LlmOutcomes == {"no_key", "invoke_fails", "content"}

\* response.content of the collaborator that rewrites questions
RefinedContent == <<" ","W","h","a","t"," ","i","s"," ","x","?","\n">>

\* no prompt was given to the collaborator
NoPrompt ==
    [history |-> NoneSeq, question |-> NoneSeq, comparison_context |-> None]

\* the outcome of a call: it raised or returned result, after llm_calls
\* calls of the collaborator, the last of them with prompt
CallOutcome(raised, result, llm_calls, prompt) ==
    [raised |-> raised, result |-> result, llm_calls |-> llm_calls,
     prompt |-> prompt]

\* a slip: the fast path for an empty history left out
Mut_reformulate_question(q, chat_history, llm) ==
    LET prompt == [history |-> get_chat_history_str(chat_history),
                   question |-> q,
                   comparison_context |-> detect_comparison_keywords(q)[2]]
    IN  IF llm = "no_key"
        THEN CallOutcome(TRUE, NoneSeq, 0, NoPrompt)
        ELSE IF llm = "invoke_fails"
        THEN CallOutcome(TRUE, NoneSeq, 1, prompt)
        ELSE CallOutcome(FALSE, Strip(RefinedContent), 1, prompt)

\* reformulate_question(question, chat_history), the collaborator doing llm
reformulate_question(q, chat_history, llm) ==
    IF chat_history = << >>
    THEN CallOutcome(FALSE, q, 0, NoPrompt)
    ELSE LET prompt == [history |-> get_chat_history_str(chat_history),
                        question |-> q,
                        comparison_context |-> detect_comparison_keywords(q)[2]]
         IN  IF llm = "no_key"
             THEN CallOutcome(TRUE, NoneSeq, 0, NoPrompt)
             ELSE IF llm = "invoke_fails"
             THEN CallOutcome(TRUE, NoneSeq, 1, prompt)
             ELSE CallOutcome(FALSE, Strip(RefinedContent), 1, prompt)

\* the forms a turn of the history is given in
MessageKinds == {"dict", "tuple"}

\* the i-th turn of a history, in the given form: the user and the
\* assistant speak in turn, the assistant's dict carries the query it made
MessageOf(kind, i) ==
    LET role == IF i % 2 = 1
                THEN IF kind = "dict" THEN <<"u","s","e","r">>
                     ELSE <<"U","S","E","R">>
                ELSE <<"a","s","s","i","s","t","a","n","t">>
        sql == IF i % 2 = 0 /\ kind = "dict"
               THEN <<"S","E","L","E","C","T"," ", TurnDigits[i]>>
               ELSE NoneSeq
    IN  Message(kind, role, <<"m", TurnDigits[i]>>, sql)

Histories ==
    { [i \in 1..Len(kinds) |-> MessageOf(kinds[i], i)] :
         kinds \in UNION {[1..n -> MessageKinds] : n \in 0..MaxHistory} }

\* questions given to reformulate_question
FollowUps ==
    { <<" ","i","t","?"," ">>,
      <<"a"," ","V","S"," ","l","a","s","t"," ","y","e","a","r">> }

(***************************************************************************)
(* analyze_data_for_chart: whether and how a result is drawn.              *)
(***************************************************************************)
\* pd.DataFrame(results): its rows, its columns of a number dtype and its
\* other columns
DataFrame(rows, numeric, other) ==
    [rows |-> rows, numeric |-> numeric, other |-> other]

\* df.empty: no rows, or no columns
Empty(df) == df.rows = 0 \/ df.numeric + df.other = 0

\* the frames pd.DataFrame makes of a result: of an empty list a frame
\* without rows and columns, of rows a frame with one column or more
DataFrames ==
    {DataFrame(0, 0, 0)} \cup
    { DataFrame(rows, c[1], c[2]) :
         rows \in 1..MaxRows,
         c \in {d \in (0..MaxColumns) \X (0..MaxColumns) : d[1] + d[2] >= 1} }

\* config of a chart
ChartConfig(chart_type, x_axis, y_axis) ==
    [chart_type |-> chart_type, x_axis |-> x_axis, y_axis |-> y_axis]

\* None in place of a config
NoChart == ChartConfig(None, None, None)

\* what the collaborator does when asked for a chart: get_visualization_llm
\* finds no API key, the call fails, or its text holds no JSON object, a
\* broken one, chart_type none, a chart over columns, or the wide-format bar
VizOutcomes ==
    {"no_key", "invoke_fails", "no_json", "bad_json", "none", "chart", "wide"}

\* the try block: chain.invoke, the JSON taken out of the text, json.loads
ProposedChart(llm) ==
    IF llm \in {"invoke_fails", "no_json", "bad_json", "none"}
    THEN NoChart
    ELSE IF llm = "wide"
    THEN ChartConfig("bar", "__columns__", "__values__")
    ELSE ChartConfig("bar", "c1", "n1")

\* a slip: the guard without its relaxation for a row of several metrics
Mut_analyze_data_for_chart(q, df, llm) ==
    IF Empty(df) \/ df.rows < 2
    THEN [raised |-> FALSE, result |-> NoChart, llm_calls |-> 0]
    ELSE IF llm = "no_key"
    THEN [raised |-> TRUE, result |-> NoChart, llm_calls |-> 0]
    ELSE [raised |-> FALSE, result |-> ProposedChart(llm), llm_calls |-> 1]

\* analyze_data_for_chart(question, df), the collaborator doing llm
analyze_data_for_chart(q, df, llm) ==
    IF Empty(df) \/ (df.rows < 2 /\ df.numeric < 2)
    THEN [raised |-> FALSE, result |-> NoChart, llm_calls |-> 0]
    ELSE IF llm = "no_key"
    THEN [raised |-> TRUE, result |-> NoChart, llm_calls |-> 0]
    ELSE [raised |-> FALSE, result |-> ProposedChart(llm), llm_calls |-> 1]

\* the names of the columns of a frame: its number columns n1, n2, ... and
\* its other columns c1, c2, ...
NumericNames == <<"n1", "n2", "n3", "n4">>

OtherNames == <<"c1", "c2", "c3", "c4">>

\* df.columns
Columns(df) ==
    {NumericNames[i] : i \in 1..df.numeric} \cup
    {OtherNames[i] : i \in 1..df.other}

\* None in place of a figure
NoFigure == [chart_type |-> None]

\* the figure px.bar, px.line, px.pie or px.scatter draws over x and y
Figure(chart_type, x, y) == [chart_type |-> chart_type, x |-> x, y |-> y]

\* what plotly does when asked for the figure: it draws it or raises, and it
\* raises when an axis it is given is a text that names no column
PxOutcomes == {"figure", "raises"}

\* the try block of render_chart over the frame with these columns
Draw(columns, chart_type, x, y, px) ==
    IF chart_type \in {"bar", "line", "pie", "scatter"}
    THEN IF px = "raises" \/ (y # None /\ y \notin columns)
         THEN NoFigure
         ELSE Figure(chart_type, x, y)
    ELSE NoFigure

\* a slip: the check of the columns made of x alone
Mut_render_chart(df, config, px) ==
    LET wide == /\ config.x_axis = "__columns__"
                /\ config.y_axis = "__values__"
                /\ df.rows = 1
        x == IF wide THEN "Metric" ELSE config.x_axis
        y == IF wide THEN "Value" ELSE config.y_axis
        columns == IF wide THEN {"Metric", "Value"} ELSE Columns(df)
    IN  IF x \notin columns
        THEN NoFigure
        ELSE IF config.chart_type \in {"bar", "line", "pie", "scatter"}
             THEN IF px = "raises" THEN NoFigure
                  ELSE Figure(config.chart_type, x, y)
             ELSE NoFigure

\* render_chart(df, config), plotly doing px
render_chart(df, config, px) ==
    LET wide == /\ config.x_axis = "__columns__"
                /\ config.y_axis = "__values__"
                /\ df.rows = 1
        x == IF wide THEN "Metric" ELSE config.x_axis
        y == IF wide THEN "Value" ELSE config.y_axis
        columns == IF wide THEN {"Metric", "Value"} ELSE Columns(df)
    IN  IF x \notin columns \/ (Truthy(y) /\ y \notin columns)
        THEN NoFigure
        ELSE Draw(columns, config.chart_type, x, y, px)

\* the chart types, x axes and y axes a proposal may name: columns of the
\* result, names that are no column, the reserved markers, no name at all
ChartTypes == {"bar", "line", "pie", "scatter", "table"}

XAxes == {"n1", "c1", "c2", "zz", "__columns__", None}

YAxes == {"n1", "n2", "zz", "", "__values__", None}

Configs ==
    { ChartConfig(t, x, y) : t \in ChartTypes, x \in XAxes, y \in YAxes }

(***************************************************************************)
(* The log store: the file LOG_FILE.  kind is "absent" (no file), "list"   *)
(* (a JSON array, entries holds it), "corrupt" (text json.load rejects) or *)
(* "other" (JSON that is no array); readable and writable are the          *)
(* permissions open() meets.                                               *)
(***************************************************************************)
StoreOf(kind, entries, readable, writable) ==
    [kind |-> kind, entries |-> entries,
     readable |-> readable, writable |-> writable]

\* the try block of get_logs: what open() and json.load() do.  is_list
\* tells a JSON array from other JSON, such as {}, that json.load returns too
ReadFile(store) ==
    IF ~store.readable
    THEN [exc |-> "PermissionError", is_list |-> FALSE, value |-> << >>]
    ELSE IF store.kind = "corrupt"
    THEN [exc |-> "JSONDecodeError", is_list |-> FALSE, value |-> << >>]
    ELSE IF store.kind = "other"
    THEN [exc |-> None, is_list |-> FALSE, value |-> << >>]
    ELSE [exc |-> None, is_list |-> TRUE, value |-> store.entries]

\* what get_logs returns: a list, or what json.load made of other JSON
Returned(is_list, value) ==
    [raised |-> FALSE, is_list |-> is_list, value |-> value]

\* an exception leaves get_logs
Raised == [raised |-> TRUE, is_list |-> FALSE, value |-> << >>]

\* a slip: get_logs without its last handler, except Exception
Mut_get_logs(store) ==
    IF store.kind = "absent"
    THEN Returned(TRUE, << >>)
    ELSE LET r == ReadFile(store)
         IN  IF r.exc = None THEN Returned(r.is_list, r.value)
             ELSE IF r.exc \in {"JSONDecodeError", "ValueError"}
                  THEN Returned(TRUE, << >>)
                  ELSE Raised

\* get_logs()
get_logs(store) ==
    IF store.kind = "absent"
    THEN Returned(TRUE, << >>)
    ELSE LET r == ReadFile(store)
         IN  IF r.exc = None THEN Returned(r.is_list, r.value)
             ELSE IF r.exc \in {"JSONDecodeError", "ValueError"}
                  THEN Returned(TRUE, << >>)
                  ELSE Returned(TRUE, << >>)

\* what the store may hold when the program starts
InitialStores ==
    { StoreOf(c[1], c[2], readable, writable) :
         c \in { <<"absent", << >> >>, <<"list", << >> >>,
                 <<"list", <<OldEntry>> >>, <<"corrupt", << >> >>,
                 <<"other", << >> >> },
         readable \in BOOLEAN, writable \in BOOLEAN }

\* with open(LOG_FILE, "w") as f: json.dump(data, f), inside try/except:
\* open() fails on a store that is not writable and leaves it as it is; else
\* the file is truncated, and json.dump writes it whole or fails part-way
WriteFile(store, data, outcome) ==
    IF ~store.writable THEN store
    ELSE IF outcome = "dump_fails"
         THEN [store EXCEPT !.kind = "corrupt", !.entries = << >>]
         ELSE [store EXCEPT !.kind = "list", !.entries = data]

WriteOutcomes == {"ok", "dump_fails"}

(***************************************************************************)
(* State.                                                                  *)
(***************************************************************************)
VARIABLES
    query,      \* the text given to a call of validate_sql_safety
    verdict,    \* what the call returned
    vpc,        \* "call" before the call, "done" after it
    pc,         \* pc[p]: where turn p stands in chat()
    question,   \* question[p]: request.question
    sql_query,  \* sql_query[p]: what generate_sql returned
    conn,       \* conn[p]: "none", "open" or "closed"
    results,    \* results[p], error[p]: what run_sql_query returned
    error,
    logs,       \* logs[p]: the list log_query loaded
    response,   \* response[p]: what the turn answered
    LOG_FILE,   \* the log store
    executed,   \* texts handed to cursor.execute, with the function that did
    legacy,     \* the call of run_sql.run_sql_query
    hist,       \* the last answer of /history
    DB_TYPE,    \* the configured backend, "sqlite" or "mysql"
    cursor,     \* cursor[p]: what the driver did with cursor.execute
    reformulate, \* the call of reformulate_question
    extract,    \* the call of extract_sql
    analyze,    \* the call of analyze_data_for_chart
    render,     \* the call of render_chart
    handle      \* handle[p]: which connection object turn p got, 0 for none

vvars == <<query, verdict, vpc>>

tvars == <<pc, question, sql_query, conn, results, error, logs, response,
           LOG_FILE, executed, legacy, hist, DB_TYPE, cursor, handle>>

fvars == <<reformulate, extract, analyze, render>>

vars == <<query, verdict, vpc, pc, question, sql_query, conn, results, error,
          logs, response, LOG_FILE, executed, legacy, hist, DB_TYPE, cursor,
          reformulate, extract, analyze, render, handle>>

Pending == "pending"

\* a function that has not been called
NoCall == [pc |-> "off"]

\* no call of reformulate_question, extract_sql, analyze_data_for_chart or
\* render_chart
InitCalls ==
    /\ reformulate = NoCall
    /\ extract = NoCall
    /\ analyze = NoCall
    /\ render = NoCall

\* the values of DB_TYPE: "mysql", and anything else means SQLite
Backends == {"sqlite", "mysql"}

NoResponse == [status |-> 0]

\* the call of run_sql.run_sql_query: not made ("off"), made, or returned
LegacyCall(at, q) ==
    [pc |-> at, query |-> q, results |-> NoneSeq, error |-> None,
     conn |-> "none"]

InitTurns ==
    /\ pc = [p \in Procs |-> "idle"]
    /\ question = [p \in Procs |-> << >>]
    /\ sql_query = [p \in Procs |-> NoneSeq]
    /\ conn = [p \in Procs |-> "none"]
    /\ results = [p \in Procs |-> NoneSeq]
    /\ error = [p \in Procs |-> None]
    /\ logs = [p \in Procs |-> << >>]
    /\ response = [p \in Procs |-> NoResponse]
    /\ executed = {}
    /\ legacy = LegacyCall("off", << >>)
    /\ hist = [op |-> "none", success |-> TRUE]
    /\ cursor = [p \in Procs |-> "none"]
    /\ handle = [p \in Procs |-> 0]

(***************************************************************************)
(* The validator alone.                                                    *)
(***************************************************************************)
InitValidator ==
    /\ \/ \E shape \in Shapes, a \in 1..Len(allowed_starts),
             f \in 1..Len(forbidden_keywords), style \in Styles :
             query = Render(shape, a, f, style)
       \/ query = RefusalStatement
       \/ query \in UnicodeQueries
    /\ verdict = Pending
    /\ vpc = "call"
    /\ InitTurns
    /\ LOG_FILE = StoreOf("absent", << >>, TRUE, TRUE)
    /\ DB_TYPE = "sqlite"
    /\ InitCalls

\* one call of validate_sql_safety(query)
Validate ==
    /\ vpc = "call"
    /\ verdict' = validate_sql_safety(query)
    /\ vpc' = "done"
    /\ UNCHANGED query
    /\ UNCHANGED tvars
    /\ UNCHANGED fvars

NextValidator == Validate

SpecValidator == InitValidator /\ [][NextValidator]_vars

(***************************************************************************)
(* extract_sql alone.                                                      *)
(***************************************************************************)
InitExtract ==
    /\ query = << >>
    /\ verdict = Pending
    /\ vpc = "off"
    /\ InitTurns
    /\ LOG_FILE = StoreOf("absent", << >>, TRUE, TRUE)
    /\ DB_TYPE = "sqlite"
    /\ reformulate = NoCall
    /\ analyze = NoCall
    /\ render = NoCall
    /\ \E text \in RawContents : extract = [pc |-> "call", text |-> text]

\* one call of extract_sql(text)
Extract ==
    /\ extract.pc = "call"
    /\ extract' = [pc |-> "done", text |-> extract.text,
                   result |-> extract_sql(extract.text)]
    /\ UNCHANGED <<reformulate, analyze, render>>
    /\ UNCHANGED vvars
    /\ UNCHANGED tvars

NextExtract == Extract

SpecExtract == InitExtract /\ [][NextExtract]_vars

(***************************************************************************)
(* reformulate_question alone.                                             *)
(***************************************************************************)
InitReformulate ==
    /\ query = << >>
    /\ verdict = Pending
    /\ vpc = "off"
    /\ InitTurns
    /\ LOG_FILE = StoreOf("absent", << >>, TRUE, TRUE)
    /\ DB_TYPE = "sqlite"
    /\ extract = NoCall
    /\ analyze = NoCall
    /\ render = NoCall
    /\ \E q \in FollowUps, h \in Histories, llm \in LlmOutcomes :
          reformulate = [pc |-> "call", question |-> q, chat_history |-> h,
                         llm |-> llm]

\* one call of reformulate_question(question, chat_history)
Reformulate ==
    /\ reformulate.pc = "call"
    /\ LET out == reformulate_question(reformulate.question,
                                       reformulate.chat_history,
                                       reformulate.llm)
       IN  reformulate' =
              [pc |-> "done", question |-> reformulate.question,
               chat_history |-> reformulate.chat_history,
               llm |-> reformulate.llm, raised |-> out.raised,
               result |-> out.result, llm_calls |-> out.llm_calls,
               prompt |-> out.prompt]
    /\ UNCHANGED <<extract, analyze, render>>
    /\ UNCHANGED vvars
    /\ UNCHANGED tvars

NextReformulate == Reformulate

SpecReformulate == InitReformulate /\ [][NextReformulate]_vars

(***************************************************************************)
(* analyze_data_for_chart alone.                                           *)
(***************************************************************************)
InitAnalyze ==
    /\ query = << >>
    /\ verdict = Pending
    /\ vpc = "off"
    /\ InitTurns
    /\ LOG_FILE = StoreOf("absent", << >>, TRUE, TRUE)
    /\ DB_TYPE = "sqlite"
    /\ reformulate = NoCall
    /\ extract = NoCall
    /\ render = NoCall
    /\ \E q \in FollowUps, df \in DataFrames, llm \in VizOutcomes :
          analyze = [pc |-> "call", question |-> q, df |-> df, llm |-> llm]

\* one call of analyze_data_for_chart(question, df)
Analyze ==
    /\ analyze.pc = "call"
    /\ LET out == analyze_data_for_chart(analyze.question, analyze.df,
                                         analyze.llm)
       IN  analyze' =
              [pc |-> "done", question |-> analyze.question,
               df |-> analyze.df, llm |-> analyze.llm,
               raised |-> out.raised, result |-> out.result,
               llm_calls |-> out.llm_calls]
    /\ UNCHANGED <<reformulate, extract, render>>
    /\ UNCHANGED vvars
    /\ UNCHANGED tvars

NextAnalyze == Analyze

SpecAnalyze == InitAnalyze /\ [][NextAnalyze]_vars

(***************************************************************************)
(* render_chart alone.                                                     *)
(***************************************************************************)
InitRender ==
    /\ query = << >>
    /\ verdict = Pending
    /\ vpc = "off"
    /\ InitTurns
    /\ LOG_FILE = StoreOf("absent", << >>, TRUE, TRUE)
    /\ DB_TYPE = "sqlite"
    /\ reformulate = NoCall
    /\ extract = NoCall
    /\ analyze = NoCall
    /\ \E df \in DataFrames, config \in Configs, px \in PxOutcomes :
          /\ ~Empty(df)
          /\ render = [pc |-> "call", df |-> df, config |-> config, px |-> px]

\* one call of render_chart(df, config)
Render_chart ==
    /\ render.pc = "call"
    /\ render' = [pc |-> "done", df |-> render.df, config |-> render.config,
                  px |-> render.px,
                  result |-> render_chart(render.df, render.config, render.px)]
    /\ UNCHANGED <<reformulate, extract, analyze>>
    /\ UNCHANGED vvars
    /\ UNCHANGED tvars

NextRender == Render_chart

SpecRender == InitRender /\ [][NextRender]_vars

(***************************************************************************)
(* chat(): one turn.                                                       *)
(***************************************************************************)
HttpError(code) == [status |-> code]

ChatResponse(success, sql, res, err) ==
    [status |-> 200, success |-> success, sql_query |-> sql,
     results |-> res, error |-> err]

\* the request arrives; an empty or blank question is answered 400
Receive(p) ==
    /\ pc[p] = "idle"
    /\ \E q \in Questions(p) :
          /\ question' = [question EXCEPT ![p] = q]
          /\ IF q = << >> \/ Strip(q) = << >>
             THEN /\ response' = [response EXCEPT ![p] = HttpError(400)]
                  /\ pc' = [pc EXCEPT ![p] = "responded"]
             ELSE /\ pc' = [pc EXCEPT ![p] = "reformulate"]
                  /\ UNCHANGED response
    /\ UNCHANGED <<sql_query, conn, results, error, logs, LOG_FILE,
                   executed, legacy, hist>>
    /\ UNCHANGED <<vvars, fvars, DB_TYPE, cursor, handle>>

\* histories a request carries: none, or the two turns of an earlier exchange
TurnHistories == { << >>, <<MessageOf("dict", 1), MessageOf("dict", 2)>> }

\* texts the collaborator that writes SQL answers with: a statement in a
\* sql block, a bare statement, nothing but blanks
TurnContents ==
    { SqlFence \o <<"\n">> \o q \o <<"\n">> \o Fence : q \in TurnQueries }
    \cup TurnQueries \cup { << >>, <<" ", "\n">> }

\* generate_sql, Step 1: reformulate_question(question, chat_history); what
\* it raises leaves generate_sql and is caught by chat()
GenerateSql_Reformulate(p) ==
    /\ pc[p] = "reformulate"
    /\ \E h \in TurnHistories, llm \in LlmOutcomes :
          LET out == reformulate_question(question[p], h, llm)
          IN  IF out.raised
              THEN /\ error' = [error EXCEPT ![p] = "reformulation failed"]
                   /\ pc' = [pc EXCEPT ![p] = "exc_log_load"]
              ELSE /\ pc' = [pc EXCEPT ![p] = "retrieve"]
                   /\ UNCHANGED error
    /\ UNCHANGED <<question, sql_query, conn, results, logs, response,
                   LOG_FILE, executed, legacy, hist>>
    /\ UNCHANGED <<vvars, fvars, DB_TYPE, cursor, handle>>

\* generate_sql, Step 2: get_vectorstore() and retriever.invoke(), which
\* return the schema documents or raise
GenerateSql_Retrieve(p) ==
    /\ pc[p] = "retrieve"
    /\ \/ /\ error' = [error EXCEPT ![p] = "retrieval failed"]
          /\ pc' = [pc EXCEPT ![p] = "exc_log_load"]
       \/ /\ pc' = [pc EXCEPT ![p] = "generate"]
          /\ UNCHANGED error
    /\ UNCHANGED <<question, sql_query, conn, results, logs, response,
                   LOG_FILE, executed, legacy, hist>>
    /\ UNCHANGED <<vvars, fvars, DB_TYPE, cursor, handle>>

\* generate_sql, the rest: get_llm() or chain.invoke() raises, or the
\* collaborator answers and extract_sql(raw_content) is returned to chat(),
\* which answers an empty sql_query at once
Generate(p) ==
    /\ pc[p] = "generate"
    /\ \/ /\ error' = [error EXCEPT ![p] = "generation failed"]
          /\ pc' = [pc EXCEPT ![p] = "exc_log_load"]
          /\ UNCHANGED <<sql_query, response>>
       \/ \E raw_content \in TurnContents :
             LET final_sql == extract_sql(raw_content)
             IN  /\ sql_query' = [sql_query EXCEPT ![p] = final_sql]
                 /\ IF ~TruthySeq(final_sql)
                    THEN /\ response' = [response EXCEPT ![p] =
                               ChatResponse(FALSE, NoneSeq, NoneSeq,
                                            "Failed to generate SQL query")]
                         /\ pc' = [pc EXCEPT ![p] = "responded"]
                    ELSE /\ pc' = [pc EXCEPT ![p] = "validate"]
                         /\ UNCHANGED response
                 /\ UNCHANGED error
    /\ UNCHANGED <<question, conn, results, logs, LOG_FILE, executed,
                   legacy, hist>>
    /\ UNCHANGED <<vvars, fvars, DB_TYPE, cursor, handle>>

(***************************************************************************)
(* run_sql_query(sql_query), step by step.                                 *)
(***************************************************************************)
\* run_sql_query returns (res, err) to chat(), which goes on to log_query
Return(p, res, err) ==
    /\ results' = [results EXCEPT ![p] = res]
    /\ error' = [error EXCEPT ![p] = err]
    /\ pc' = [pc EXCEPT ![p] = "log_load"]

\* a slip: the connection opened before the safety check
Mut_RunSql_Validate(p) ==
    /\ pc[p] = "validate"
    /\ conn' = [conn EXCEPT ![p] = "open"]
    /\ LET safety_error == validate_sql_safety(sql_query[p])
       IN  IF Truthy(safety_error)
           THEN Return(p, NoneSeq, safety_error)
           ELSE /\ pc' = [pc EXCEPT ![p] = "cursor"]
                /\ UNCHANGED <<results, error>>
    /\ UNCHANGED <<question, sql_query, logs, response, LOG_FILE,
                   executed, legacy, hist>>
    /\ UNCHANGED <<vvars, fvars, DB_TYPE, cursor, handle>>

\* Step 1: validate; an unsafe query returns at once
RunSql_Validate(p) ==
    /\ pc[p] = "validate"
    /\ LET safety_error == validate_sql_safety(sql_query[p])
       IN  IF Truthy(safety_error)
           THEN Return(p, NoneSeq, safety_error)
           ELSE /\ pc' = [pc EXCEPT ![p] = "connect"]
                /\ UNCHANGED <<results, error>>
    /\ UNCHANGED <<question, sql_query, conn, logs, response, LOG_FILE,
                   executed, legacy, hist>>
    /\ UNCHANGED <<vvars, fvars, DB_TYPE, cursor, handle>>

\* the connection objects made so far are numbered 1, 2, ...
Connections == {handle[p] : p \in Procs} \ {0}

\* sqlite3.connect() and mysql.connector.connect() make a new object
NewConnection ==
    IF Connections = {} THEN 1
    ELSE 1 + CHOOSE n \in Connections : \A m \in Connections : m <= n

\* a slip: get_db_connection() handing out the connection of a pool
Mut_RunSql_Connect(p) ==
    /\ pc[p] = "connect"
    /\ \/ /\ conn' = [conn EXCEPT ![p] = "open"]
          /\ handle' = [handle EXCEPT ![p] = 1]
          /\ pc' = [pc EXCEPT ![p] = "cursor"]
          /\ UNCHANGED <<results, error>>
       \/ /\ Return(p, NoneSeq, "Database connection error: e")
          /\ UNCHANGED <<conn, handle>>
       \/ /\ Return(p, NoneSeq, "Database error: e")
          /\ UNCHANGED <<conn, handle>>
    /\ UNCHANGED <<question, sql_query, logs, response, LOG_FILE, executed,
                   legacy, hist>>
    /\ UNCHANGED <<vvars, fvars, DB_TYPE, cursor>>

\* conn = get_db_connection(): a connection, ConnectionError or another error
RunSql_Connect(p) ==
    /\ pc[p] = "connect"
    /\ \/ /\ conn' = [conn EXCEPT ![p] = "open"]
          /\ handle' = [handle EXCEPT ![p] = NewConnection]
          /\ pc' = [pc EXCEPT ![p] = "cursor"]
          /\ UNCHANGED <<results, error>>
       \/ /\ Return(p, NoneSeq, "Database connection error: e")
          /\ UNCHANGED <<conn, handle>>
       \/ /\ Return(p, NoneSeq, "Database error: e")
          /\ UNCHANGED <<conn, handle>>
    /\ UNCHANGED <<question, sql_query, logs, response, LOG_FILE, executed,
                   legacy, hist>>
    /\ UNCHANGED <<vvars, fvars, DB_TYPE, cursor>>

\* cursor = conn.cursor(): a cursor, or an exception caught by the last except
RunSql_Cursor(p) ==
    /\ pc[p] = "cursor"
    /\ \/ /\ pc' = [pc EXCEPT ![p] = "execute"]
          /\ UNCHANGED <<results, error>>
       \/ Return(p, NoneSeq, "Database error: e")
    /\ UNCHANGED <<question, sql_query, conn, logs, response, LOG_FILE,
                   executed, legacy, hist>>
    /\ UNCHANGED <<vvars, fvars, DB_TYPE, cursor, handle>>

\* what the driver does with cursor.execute(query): it raises its own error
\* class, it raises something else, or it runs the statement, which has no
\* result columns (cursor.description is None), no rows, or rows
ExecuteOutcomes ==
    {"driver_error", "other_error", "no_description", "no_rows", "rows"}

\* a slip: the columns read off cursor.description without the test of it,
\* a TypeError that the last handler turns into a message
Mut_execute_query_mysql(outcome) ==
    IF outcome = "driver_error"
    THEN <<NoneSeq, "1146 (42S02): Table 'x' doesn't exist">>
    ELSE IF outcome = "other_error"
    THEN <<NoneSeq, "Unexpected error: e">>
    ELSE IF outcome = "no_description"
    THEN <<NoneSeq, "Unexpected error: 'NoneType' object is not iterable">>
    ELSE IF outcome = "no_rows" THEN << << >>, None>>
    ELSE <<SomeRows, None>>

\* execute_query_sqlite(cursor, query)
execute_query_sqlite(outcome) ==
    IF outcome = "driver_error"
    THEN <<NoneSeq, "no such table: x">>
    ELSE IF outcome = "other_error"
    THEN <<NoneSeq, "Unexpected error: e">>
    ELSE IF outcome = "no_description" THEN << << >>, None>>
    ELSE IF outcome = "no_rows" THEN << << >>, None>>
    ELSE <<SomeRows, None>>

\* execute_query_mysql(cursor, query)
execute_query_mysql(outcome) ==
    IF outcome = "driver_error"
    THEN <<NoneSeq, "1146 (42S02): Table 'x' doesn't exist">>
    ELSE IF outcome = "other_error"
    THEN <<NoneSeq, "Unexpected error: e">>
    ELSE IF outcome = "no_description" THEN << << >>, None>>
    ELSE IF outcome = "no_rows" THEN << << >>, None>>
    ELSE <<SomeRows, None>>

\* a slip: the working copy of the validator handed to cursor.execute
Mut_RunSql_Execute(p) ==
    /\ pc[p] = "execute"
    /\ executed' = executed \cup
          {[query |-> Upper(Strip(sql_query[p])),
            by |-> "database.run_sql_query"]}
    /\ \E outcome \in ExecuteOutcomes :
          LET out == IF DB_TYPE = "mysql"
                     THEN execute_query_mysql(outcome)
                     ELSE execute_query_sqlite(outcome)
          IN  /\ cursor' = [cursor EXCEPT ![p] = outcome]
              /\ results' = [results EXCEPT ![p] = out[1]]
              /\ error' = [error EXCEPT ![p] = out[2]]
    /\ pc' = [pc EXCEPT ![p] = "close"]
    /\ UNCHANGED <<question, sql_query, conn, logs, response, LOG_FILE,
                   legacy, hist>>
    /\ UNCHANGED <<vvars, fvars, DB_TYPE, handle>>

\* results, error = execute_query_*(cursor, query)
RunSql_Execute(p) ==
    /\ pc[p] = "execute"
    /\ executed' = executed \cup
          {[query |-> sql_query[p], by |-> "database.run_sql_query"]}
    /\ \E outcome \in ExecuteOutcomes :
          LET out == IF DB_TYPE = "mysql"
                     THEN execute_query_mysql(outcome)
                     ELSE execute_query_sqlite(outcome)
          IN  /\ cursor' = [cursor EXCEPT ![p] = outcome]
              /\ results' = [results EXCEPT ![p] = out[1]]
              /\ error' = [error EXCEPT ![p] = out[2]]
    /\ pc' = [pc EXCEPT ![p] = "close"]
    /\ UNCHANGED <<question, sql_query, conn, logs, response, LOG_FILE,
                   legacy, hist>>
    /\ UNCHANGED <<vvars, fvars, DB_TYPE, handle>>

\* conn.close(); return results, error
RunSql_Close(p) ==
    /\ pc[p] = "close"
    /\ conn' = [conn EXCEPT ![p] = "closed"]
    /\ pc' = [pc EXCEPT ![p] = "log_load"]
    /\ UNCHANGED <<question, sql_query, results, error, logs, response,
                   LOG_FILE, executed, legacy, hist>>
    /\ UNCHANGED <<vvars, fvars, DB_TYPE, cursor, handle>>

(***************************************************************************)
(* log_query, in its two steps: load the log, then rewrite it.             *)
(***************************************************************************)
\* the entry of the log_query call turn p is in: the call of the try block
\* (pc log_*) or the call of the except block (pc exc_log_*)
EntryOf(p) ==
    IF pc[p] \in {"log_load", "log_write"}
    THEN IF Truthy(error[p])
         THEN LogEntry(question[p], sql_query[p], FALSE, error[p])
         ELSE LogEntry(question[p], sql_query[p], TRUE, None)
    ELSE LogEntry(question[p], << >>, FALSE, error[p])

\* logs = get_logs(); logs.append(entry) fails on what is no list, and the
\* exception leaves log_query: to the except block of chat() from the try
\* block, out of chat() from the except block
LogLoad(p) ==
    /\ pc[p] \in {"log_load", "exc_log_load"}
    /\ LET r == get_logs(LOG_FILE)
       IN  IF ~r.raised /\ r.is_list
           THEN /\ logs' = [logs EXCEPT ![p] = r.value]
                /\ pc' = [pc EXCEPT ![p] =
                      IF pc[p] = "log_load" THEN "log_write" ELSE "exc_log_write"]
                /\ UNCHANGED <<error, response>>
           ELSE IF pc[p] = "log_load"
                THEN /\ error' = [error EXCEPT ![p] = "log_query raised"]
                     /\ pc' = [pc EXCEPT ![p] = "exc_log_load"]
                     /\ UNCHANGED <<logs, response>>
                ELSE /\ response' = [response EXCEPT ![p] = HttpError(500)]
                     /\ pc' = [pc EXCEPT ![p] = "responded"]
                     /\ UNCHANGED <<logs, error>>
    /\ UNCHANGED <<question, sql_query, conn, results, LOG_FILE, executed,
                   legacy, hist>>
    /\ UNCHANGED <<vvars, fvars, DB_TYPE, cursor, handle>>

\* a slip: logs.insert(0, entry) in place of logs.append(entry)
Mut_LogWrite(p) ==
    /\ pc[p] \in {"log_write", "exc_log_write"}
    /\ \E outcome \in WriteOutcomes :
          LOG_FILE' = WriteFile(LOG_FILE, <<EntryOf(p)>> \o logs[p], outcome)
    /\ pc' = [pc EXCEPT ![p] =
          IF pc[p] = "log_write" THEN "respond" ELSE "raise"]
    /\ UNCHANGED <<question, sql_query, conn, results, error, logs, response,
                   executed, legacy, hist>>
    /\ UNCHANGED <<vvars, fvars, DB_TYPE, cursor, handle>>

\* logs.append(entry); open(LOG_FILE, "w"); json.dump(logs, f)
LogWrite(p) ==
    /\ pc[p] \in {"log_write", "exc_log_write"}
    /\ \E outcome \in WriteOutcomes :
          LOG_FILE' = WriteFile(LOG_FILE, Append(logs[p], EntryOf(p)), outcome)
    /\ pc' = [pc EXCEPT ![p] =
          IF pc[p] = "log_write" THEN "respond" ELSE "raise"]
    /\ UNCHANGED <<question, sql_query, conn, results, error, logs, response,
                   executed, legacy, hist>>
    /\ UNCHANGED <<vvars, fvars, DB_TYPE, cursor, handle>>

\* the response of the try block, or the HTTPException of the except block
Respond(p) ==
    /\ pc[p] \in {"respond", "raise"}
    /\ response' = [response EXCEPT ![p] =
          IF pc[p] = "raise" THEN HttpError(500)
          ELSE IF Truthy(error[p])
               THEN ChatResponse(FALSE, sql_query[p], NoneSeq, error[p])
               ELSE ChatResponse(TRUE, sql_query[p], results[p], None)]
    /\ pc' = [pc EXCEPT ![p] = "responded"]
    /\ UNCHANGED <<question, sql_query, conn, results, error, logs, LOG_FILE,
                   executed, legacy, hist>>
    /\ UNCHANGED <<vvars, fvars, DB_TYPE, cursor, handle>>

(***************************************************************************)
(* The chat input handler of app.py, which posted the question to /chat.   *)
(***************************************************************************)
\* api_response: the JSON of a 200 answer, a failure for any other status
ApiResponse(r) ==
    IF r.status = 200 THEN r
    ELSE ChatResponse(FALSE, NoneSeq, NoneSeq, "API error")

\* a slip: the results drawn without the test of them
Mut_ClientShow(p) ==
    /\ pc[p] = "responded"
    /\ LET api_response == ApiResponse(response[p])
       IN  pc' = [pc EXCEPT ![p] =
                    IF ~api_response.success THEN "done" ELSE "viz"]
    /\ UNCHANGED <<question, sql_query, conn, results, error, logs, response,
                   LOG_FILE, executed, legacy, hist>>
    /\ UNCHANGED <<vvars, fvars, DB_TYPE, cursor, handle>>

\* the answer is shown: an error, or the query and, if results: the rows,
\* for which a chart is then looked for
ClientShow(p) ==
    /\ pc[p] = "responded"
    /\ LET api_response == ApiResponse(response[p])
       IN  pc' = [pc EXCEPT ![p] =
                    IF ~api_response.success THEN "done"
                    ELSE IF TruthySeq(api_response.results) THEN "viz"
                    ELSE "done"]
    /\ UNCHANGED <<question, sql_query, conn, results, error, logs, response,
                   LOG_FILE, executed, legacy, hist>>
    /\ UNCHANGED <<vvars, fvars, DB_TYPE, cursor, handle>>

\* viz_config = analyze_data_for_chart(prompt, df), and the chart if any
Visualize(p) ==
    /\ pc[p] = "viz"
    /\ \E df \in DataFrames, llm \in VizOutcomes :
          /\ df.rows = Len(response[p].results)
          /\ analyze_data_for_chart(question[p], df, llm).llm_calls \in {0, 1}
    /\ pc' = [pc EXCEPT ![p] = "done"]
    /\ UNCHANGED <<question, sql_query, conn, results, error, logs, response,
                   LOG_FILE, executed, legacy, hist>>
    /\ UNCHANGED <<vvars, fvars, DB_TYPE, cursor, handle>>

(***************************************************************************)
(* /history                                                                *)
(***************************************************************************)
\* get_history(): get_logs(), answered with their count
GetHistory ==
    /\ LET r == get_logs(LOG_FILE)
       IN  hist' = [op |-> "get", success |-> ~r.raised]
    /\ UNCHANGED <<pc, question, sql_query, conn, results, error, logs,
                   response, LOG_FILE, executed, legacy>>
    /\ UNCHANGED <<vvars, fvars, DB_TYPE, cursor, handle>>

\* a slip: json.dump(get_logs(), f) in place of json.dump([], f)
Mut_clear_logs(store, outcome) ==
    WriteFile(store, get_logs(store).value, outcome)

\* clear_logs(): the store rewritten with []
clear_logs(store, outcome) == WriteFile(store, << >>, outcome)

\* a slip: clear_logs() without its try/except, the failure of json.dump
\* reaching the except block of clear_history()
Mut_ClearHistory ==
    /\ \E outcome \in WriteOutcomes :
          /\ LOG_FILE' = clear_logs(LOG_FILE, outcome)
          /\ hist' = [op |-> "clear", success |-> outcome = "ok"]
    /\ UNCHANGED <<pc, question, sql_query, conn, results, error, logs,
                   response, executed, legacy>>
    /\ UNCHANGED <<vvars, fvars, DB_TYPE, cursor, handle>>

\* clear_history(): clear_logs(), answered with success
ClearHistory ==
    /\ \E outcome \in WriteOutcomes : LOG_FILE' = clear_logs(LOG_FILE, outcome)
    /\ hist' = [op |-> "clear", success |-> TRUE]
    /\ UNCHANGED <<pc, question, sql_query, conn, results, error, logs,
                   response, executed, legacy>>
    /\ UNCHANGED <<vvars, fvars, DB_TYPE, cursor, handle>>

(***************************************************************************)
(* run_sql.run_sql_query(db_path, query): the executor of the first        *)
(* generator, rag_sql_generator.py.                                        *)
(***************************************************************************)
LegacyOutcomes == {"connect_fails", "execute_fails", "no_description", "rows"}

\* try: connect, cursor, execute, fetchall, read cursor.description, close;
\* except Exception: return None, str(e) -- with the connection left open
LegacyRunSql ==
    /\ legacy.pc = "called"
    /\ \E outcome \in LegacyOutcomes :
          /\ legacy' =
                [pc |-> "done", query |-> legacy.query,
                 results |-> IF outcome = "rows" THEN SomeRows ELSE NoneSeq,
                 error |-> IF outcome = "rows" THEN None ELSE "e",
                 conn |-> IF outcome = "connect_fails" THEN "none"
                          ELSE IF outcome = "rows" THEN "closed" ELSE "open"]
          /\ executed' =
                IF outcome = "connect_fails" THEN executed
                ELSE executed \cup
                        {[query |-> legacy.query, by |-> "run_sql.run_sql_query"]}
    /\ UNCHANGED <<pc, question, sql_query, conn, results, error, logs,
                   response, LOG_FILE, hist>>
    /\ UNCHANGED <<vvars, fvars, DB_TYPE, cursor, handle>>

(***************************************************************************)
(* The system: NumTurns concurrent turns, /history, the legacy executor.   *)
(***************************************************************************)
Init ==
    /\ query = << >>
    /\ verdict = Pending
    /\ vpc = "off"
    /\ InitTurns
    /\ LOG_FILE \in InitialStores
    /\ DB_TYPE \in Backends
    /\ InitCalls

Next ==
    \/ \E p \in Procs :
          \/ Receive(p)
          \/ GenerateSql_Reformulate(p)
          \/ GenerateSql_Retrieve(p)
          \/ Generate(p)
          \/ RunSql_Validate(p)
          \/ RunSql_Connect(p)
          \/ RunSql_Cursor(p)
          \/ RunSql_Execute(p)
          \/ RunSql_Close(p)
          \/ LogLoad(p)
          \/ LogWrite(p)
          \/ Respond(p)
          \/ ClientShow(p)
          \/ Visualize(p)
    \/ GetHistory
    \/ ClearHistory

Spec == Init /\ [][Next]_vars

(***************************************************************************)
(* One turn from the question to the chart, with /history beside it.       *)
(***************************************************************************)
NextTurn ==
    \/ Receive(1)
    \/ GenerateSql_Reformulate(1)
    \/ GenerateSql_Retrieve(1)
    \/ Generate(1)
    \/ RunSql_Validate(1)
    \/ RunSql_Connect(1)
    \/ RunSql_Cursor(1)
    \/ RunSql_Execute(1)
    \/ RunSql_Close(1)
    \/ LogLoad(1)
    \/ LogWrite(1)
    \/ Respond(1)
    \/ ClientShow(1)
    \/ Visualize(1)
    \/ GetHistory
    \/ ClearHistory

SpecTurn == Init /\ [][NextTurn]_vars

(***************************************************************************)
(* The log stage of the turns: run_sql_query has returned to each turn,    *)
(* with rows or with an error, and log_query is about to be called.        *)
(***************************************************************************)
Returns ==
    { <<SomeRows, None>>, <<NoneSeq, "no such table: x">> }

InitLog ==
    /\ query = << >>
    /\ verdict = Pending
    /\ vpc = "off"
    /\ pc = [p \in Procs |-> "log_load"]
    /\ question = [p \in Procs |-> <<"q", TurnDigits[p]>>]
    /\ sql_query = [p \in Procs |->
                      <<"S","E","L","E","C","T"," ","x", TurnDigits[p]>>]
    /\ conn = [p \in Procs |-> "closed"]
    /\ \E ret \in [Procs -> Returns] :
          /\ results = [p \in Procs |-> ret[p][1]]
          /\ error = [p \in Procs |-> ret[p][2]]
          /\ cursor = [p \in Procs |->
                         IF ret[p][1] = NoneSeq THEN "driver_error" ELSE "rows"]
    /\ logs = [p \in Procs |-> << >>]
    /\ response = [p \in Procs |-> NoResponse]
    /\ executed = { [query |-> sql_query[p], by |-> "database.run_sql_query"] :
                      p \in Procs }
    /\ legacy = LegacyCall("off", << >>)
    /\ hist = [op |-> "none", success |-> TRUE]
    /\ LOG_FILE \in InitialStores
    /\ DB_TYPE = "sqlite"
    /\ handle = [p \in Procs |-> p]
    /\ InitCalls

NextLog ==
    \/ \E p \in Procs :
          \/ LogLoad(p)
          \/ LogWrite(p)
          \/ Respond(p)
    \/ GetHistory
    \/ ClearHistory

SpecLog == InitLog /\ [][NextLog]_vars

(***************************************************************************)
(* The query-execution functions called directly, as the tests and the     *)
(* first generator call them: database.run_sql_query(query) by caller 1,   *)
(* and run_sql.run_sql_query(db_path, query).                              *)
(***************************************************************************)
ExecQueries ==
    TurnQueries \cup {RefusalStatement} \cup
    { Render(shape, a, f, style) :
         shape \in UNION {[1..n -> Tokens] : n \in 0..MaxExecFrags},
         a \in 1..Len(allowed_starts), f \in 1..Len(forbidden_keywords),
         style \in Styles }

EntryPoints == {"database.run_sql_query", "run_sql.run_sql_query"}

InitExec ==
    /\ query = << >>
    /\ verdict = Pending
    /\ vpc = "off"
    /\ \E q \in ExecQueries, entry \in EntryPoints :
          IF entry = "database.run_sql_query"
          THEN /\ sql_query = [p \in Procs |-> IF p = 1 THEN q ELSE NoneSeq]
               /\ pc = [p \in Procs |-> IF p = 1 THEN "validate" ELSE "idle"]
               /\ legacy = LegacyCall("off", << >>)
          ELSE /\ sql_query = [p \in Procs |-> NoneSeq]
               /\ pc = [p \in Procs |-> "idle"]
               /\ legacy = LegacyCall("called", q)
    /\ question = [p \in Procs |-> << >>]
    /\ conn = [p \in Procs |-> "none"]
    /\ results = [p \in Procs |-> NoneSeq]
    /\ error = [p \in Procs |-> None]
    /\ logs = [p \in Procs |-> << >>]
    /\ response = [p \in Procs |-> NoResponse]
    /\ executed = {}
    /\ hist = [op |-> "none", success |-> TRUE]
    /\ LOG_FILE = StoreOf("absent", << >>, TRUE, TRUE)
    /\ DB_TYPE \in Backends
    /\ cursor = [p \in Procs |-> "none"]
    /\ handle = [p \in Procs |-> 0]
    /\ InitCalls

NextExec ==
    \/ RunSql_Validate(1)
    \/ RunSql_Connect(1)
    \/ RunSql_Cursor(1)
    \/ RunSql_Execute(1)
    \/ RunSql_Close(1)
    \/ LegacyRunSql

SpecExec == InitExec /\ [][NextExec]_vars

(***************************************************************************)
(* Concurrent turns from the question to the return of run_sql_query.      *)
(***************************************************************************)
InitConn ==
    /\ query = << >>
    /\ verdict = Pending
    /\ vpc = "off"
    /\ InitTurns
    /\ LOG_FILE = StoreOf("absent", << >>, TRUE, TRUE)
    /\ DB_TYPE \in Backends
    /\ InitCalls

NextConn ==
    \E p \in Procs :
       \/ Receive(p)
       \/ GenerateSql_Reformulate(p)
       \/ GenerateSql_Retrieve(p)
       \/ Generate(p)
       \/ RunSql_Validate(p)
       \/ RunSql_Connect(p)
       \/ RunSql_Cursor(p)
       \/ RunSql_Execute(p)
       \/ RunSql_Close(p)

SpecConn == InitConn /\ [][NextConn]_vars

(***************************************************************************)
(* The validator's contract, stated on the text as the caller wrote it.    *)
(***************************************************************************)
ClaimForbidden ==
    { <<"U","P","D","A","T","E">>, <<"D","E","L","E","T","E">>,
      <<"D","R","O","P">>, <<"A","L","T","E","R">>,
      <<"I","N","S","E","R","T">>, <<"C","R","E","A","T","E">>,
      <<"R","E","P","L","A","C","E">>, <<"T","R","U","N","C","A","T","E">>,
      <<"G","R","A","N","T">>, <<"R","E","V","O","K","E">> }

ClaimAllowed ==
    { <<"S","E","L","E","C","T">>, <<"W","I","T","H">>,
      <<"P","R","A","G","M","A">>, <<"E","X","P","L","A","I","N">> }

RECURSIVE LStrip(_)
LStrip(s) ==
    IF s # << >> /\ IsSpace(Head(s)) THEN LStrip(Tail(s)) ELSE s

\* s, leading whitespace and letter case aside, begins with a keyword of kws
BeginsWithOneOf(s, kws) ==
    LET t == LStrip(s)
    IN  \E kw \in kws :
           /\ Len(t) >= Len(kw)
           /\ \A i \in 1..Len(kw) : UpperChar(t[i]) = kw[i]

\* s holds a semicolon, then whitespace or nothing, then a forbidden keyword
\* in any letter case that no word character follows
HasChainedForbidden(s) ==
    \E i \in 1..Len(s), kw \in ClaimForbidden :
       /\ s[i] = ";"
       /\ \E j \in (i+1)..Len(s) :
             /\ \A k \in (i+1)..(j-1) : IsSpace(s[k])
             /\ j + Len(kw) - 1 <= Len(s)
             /\ \A k \in 1..Len(kw) : UpperChar(s[j+k-1]) = kw[k]
             /\ (j + Len(kw) <= Len(s) => ~IsWordChar(s[j + Len(kw)]))

\* C3: a query that begins, leading whitespace and letter case aside, with
\* one of the ten forbidden keywords is answered with an error message.
C3_ForbiddenStartIsUnsafe ==
    (vpc = "done" /\ BeginsWithOneOf(query, ClaimForbidden))
        => verdict \in {AllowListError, ChainedError}

\* a forbidden keyword, not in upper case, after leading whitespace: rejected
C3_Witness ==
    /\ vpc = "done"
    /\ BeginsWithOneOf(query, ClaimForbidden)
    /\ Len(query) > 1 /\ IsSpace(query[1])
    /\ \E i \in 1..Len(query) : IsLower(query[i])
    /\ verdict = AllowListError

\* C4: a query that begins with SELECT, WITH, PRAGMA or EXPLAIN and holds no
\* semicolon + whitespace + forbidden keyword at a word boundary is Safe; a
\* SELECT that only ends with a semicolon is Safe.
C4_AllowedStartWithoutChainIsSafe ==
    (vpc = "done" /\ BeginsWithOneOf(query, ClaimAllowed)
                  /\ ~HasChainedForbidden(query))
        => verdict = NoError

\* "SELECT x;" has been validated and found Safe
C4_Witness ==
    /\ vpc = "done"
    /\ query = <<"S","E","L","E","C","T"," ","x",";">>
    /\ verdict = NoError

\* C5: a query that begins with an allowed keyword and holds a semicolon,
\* optional whitespace and a forbidden keyword at a word boundary is Unsafe
\* with the chained-command reason, not the allow-list reason.
C5_ChainedForbiddenIsUnsafe ==
    (vpc = "done" /\ BeginsWithOneOf(query, ClaimAllowed)
                  /\ HasChainedForbidden(query))
        => verdict = ChainedError

\* "select;\ndrop" (lower case, whitespace after the semicolon) was rejected
\* as a chained command
C5_Witness ==
    /\ vpc = "done"
    /\ query = <<"s","e","l","e","c","t",";","\n","d","r","o","p">>
    /\ verdict = ChainedError

(***************************************************************************)
(* The contract of reformulate_question.                                   *)
(***************************************************************************)
\* C15: with an empty history reformulate_question returns the question
\* exactly as given and never calls the collaborator; the collaborator is
\* called only for a non-empty history, once, and a call that returns for a
\* non-empty history has called it exactly once.
C15_EmptyHistoryIsFastPath ==
    reformulate.pc = "done" =>
       /\ reformulate.chat_history = << >> =>
             /\ ~reformulate.raised
             /\ reformulate.result = reformulate.question
             /\ reformulate.llm_calls = 0
       /\ reformulate.llm_calls \in {0, 1}
       /\ reformulate.llm_calls = 1 => reformulate.chat_history # << >>
       /\ (reformulate.chat_history # << >> /\ ~reformulate.raised) =>
             reformulate.llm_calls = 1

\* a question with blanks around it came back unchanged for an empty
\* history, from a collaborator that would have answered
C15_Witness ==
    /\ reformulate.pc = "done"
    /\ reformulate.chat_history = << >>
    /\ reformulate.llm = "content"
    /\ reformulate.question = <<" ","i","t","?"," ">>
    /\ reformulate.result = <<" ","i","t","?"," ">>
    /\ reformulate.llm_calls = 0

\* the content of the i-th turn of the histories
Marker(i) == <<"m", TurnDigits[i]>>

\* how often kw stands in s
Occurrences(s, kw) == Cardinality({i \in 1..Len(s) : OccursAt(s, kw, i)})

\* where kw stands first in s
FirstAt(s, kw) ==
    CHOOSE i \in 1..Len(s) :
       OccursAt(s, kw, i) /\ \A j \in 1..(i-1) : ~OccursAt(s, kw, j)

\* the i-th turn of history h is one of its last 6
Retained(h, i) == i \in 1..Len(h) /\ i > Len(h) - 6

\* the role of a turn as an entry shows it
ShownRole(msg) ==
    IF Lower(msg.role) = <<"u","s","e","r">>
    THEN <<"U","s","e","r">>
    ELSE <<"A","s","s","i","s","t","a","n","t">>

\* C16: the history text given to the collaborator holds one entry,
\* "<Role>: <content>", for each of the last 6 turns of the history (for
\* all its turns when they are fewer), in the order of the turns, and
\* nothing of an older turn.
C16_HistoryTextIsLastSixTurns ==
    (reformulate.pc = "done" /\ reformulate.llm_calls = 1) =>
       LET h == reformulate.chat_history
           text == reformulate.prompt.history
       IN  /\ \A i \in 1..Len(h) :
                 IF Retained(h, i)
                 THEN /\ Occurrences(text, Marker(i)) = 1
                      /\ Contains(text, ShownRole(h[i]) \o <<":", " ">>
                                           \o Marker(i))
                 ELSE ~Contains(text, Marker(i))
           /\ \A i, j \in 1..Len(h) :
                 (Retained(h, i) /\ Retained(h, j) /\ i < j) =>
                    FirstAt(text, Marker(i)) < FirstAt(text, Marker(j))

\* a history of seven turns was given, and the collaborator was called with
\* a text that has the second turn and not the first
C16_Witness ==
    /\ reformulate.pc = "done"
    /\ reformulate.llm_calls = 1
    /\ Len(reformulate.chat_history) = 7
    /\ Contains(reformulate.prompt.history, <<"m","2">>)
    /\ ~Contains(reformulate.prompt.history, <<"m","1">>)

(***************************************************************************)
(* The contract of analyze_data_for_chart.                                 *)
(***************************************************************************)
\* the call went on to the collaborator: it asked it, or failed to reach it
Proceeded == analyze.llm_calls = 1 \/ analyze.raised

\* C18: analyze_data_for_chart returns none without calling the
\* collaborator for an empty result and for a result of fewer than 2 rows
\* and fewer than 2 numeric columns; for a result of at least 2 rows or at
\* least 2 numeric columns it goes on to the collaborator.
C18_SkipsSmallResults ==
    analyze.pc = "done" =>
       IF analyze.df.rows = 0
             \/ (analyze.df.rows < 2 /\ analyze.df.numeric < 2)
       THEN /\ ~analyze.raised
            /\ analyze.result = NoChart
            /\ analyze.llm_calls = 0
       ELSE Proceeded

\* one row with one numeric column and one other column was given, and no
\* chart came back from a collaborator that would have proposed one
C18_Witness ==
    /\ analyze.pc = "done"
    /\ analyze.df = DataFrame(1, 1, 1)
    /\ analyze.llm = "chart"
    /\ analyze.result = NoChart
    /\ analyze.llm_calls = 0

(***************************************************************************)
(* The contract of extract_sql.                                            *)
(***************************************************************************)
\* the text holds a sql-tagged fenced block: the fence with its tag and,
\* behind it, a fence
HasSqlBlock(text) ==
    \E i \in 1..Len(text) :
       /\ OccursAt(text, SqlFence, i)
       /\ \E j \in (i + 6)..Len(text) : OccursAt(text, Fence, j)

\* what stands between the first tagged fence that is closed and the fence
\* closing it
FirstBlockContent(text) ==
    LET Closed(i) ==
           /\ OccursAt(text, SqlFence, i)
           /\ \E j \in (i + 6)..Len(text) : OccursAt(text, Fence, j)
        i == CHOOSE k \in 1..Len(text) :
                Closed(k) /\ \A m \in 1..(k-1) : ~Closed(m)
        j == CHOOSE k \in (i + 6)..Len(text) :
                /\ OccursAt(text, Fence, k)
                /\ \A m \in (i + 6)..(k-1) : ~OccursAt(text, Fence, m)
    IN  SubSeq(text, i + 6, j - 1)

\* s with its leading and trailing whitespace removed, one character at a time
RECURSIVE Trimmed(_)
Trimmed(s) ==
    IF s = << >> THEN << >>
    ELSE IF IsSpace(Head(s)) THEN Trimmed(Tail(s))
    ELSE IF IsSpace(s[Len(s)]) THEN Trimmed(SubSeq(s, 1, Len(s) - 1))
    ELSE s

\* C17: extract_sql returns the trimmed content of the first sql-tagged
\* fenced block when the text holds one, and the trimmed text otherwise,
\* whether or not it starts with SELECT or WITH; it always returns.
C17_ExtractSqlFallbackOrder ==
    extract.pc = "done" =>
       IF HasSqlBlock(extract.text)
       THEN extract.result = Trimmed(FirstBlockContent(extract.text))
       ELSE extract.result = Trimmed(extract.text)

\* the statement was extracted from a block that holds it on a line of its own
C17_Witness ==
    /\ extract.pc = "done"
    /\ extract.text = SqlFence \o
                        <<"\n","S","E","L","E","C","T"," ","1","\n">> \o Fence
    /\ extract.result = <<"S","E","L","E","C","T"," ","1">>

(***************************************************************************)
(* The execution backend's contract.                                       *)
(***************************************************************************)
\* turn p has not yet passed the safety check of run_sql_query
BeforeValidation(p) ==
    pc[p] \in {"idle", "reformulate", "retrieve", "generate", "validate"}

\* run_sql_query has returned to its caller, who has not yet gone on
HasReturned(p) == pc[p] = "log_load"

\* C1: a query the validator rejects makes run_sql_query return
\* (None, reason) with no connection ever opened for it, and no connection
\* is opened before the validation.
C1_RejectedQueryOpensNoConnection ==
    \A p \in Procs :
       /\ conn[p] # "none" =>
             /\ ~BeforeValidation(p)
             /\ validate_sql_safety(sql_query[p]) = None
       /\ (HasReturned(p) /\ validate_sql_safety(sql_query[p]) # None) =>
             /\ results[p] = NoneSeq
             /\ error[p] = validate_sql_safety(sql_query[p])
             /\ conn[p] = "none"

\* a chained command in lower case was rejected, with no connection opened
C1_Witness ==
    \E p \in Procs :
       /\ HasReturned(p)
       /\ sql_query[p] =
             <<"s","e","l","e","c","t"," ","x",";"," ","d","r","o","p"," ","x">>
       /\ error[p] = ChainedError
       /\ results[p] = NoneSeq
       /\ conn[p] = "none"

\* C2: every text handed to cursor.execute by a query-execution function of
\* the repository is one the validator classifies Safe.
C2_OnlySafeTextsAreExecuted ==
    \A e \in executed : validate_sql_safety(e.query) = None

\* C6: when run_sql_query returns, the connection it opened is closed, on
\* every exit path.
C6_ConnectionClosedOnReturn ==
    \A p \in Procs : HasReturned(p) => conn[p] # "open"

\* C20: a Safe query whose execution reports no result columns
\* (cursor.description absent) makes run_sql_query return an empty row
\* sequence and no error, on the SQLite and on the MySQL backend.
C20_NoDescriptionIsEmptyResult ==
    \A p \in Procs :
       (HasReturned(p) /\ cursor[p] = "no_description") =>
          /\ validate_sql_safety(sql_query[p]) = None
          /\ results[p] = << >>
          /\ error[p] = None

\* on MySQL, a PRAGMA statement without result columns has returned
C20_Witness ==
    /\ DB_TYPE = "mysql"
    /\ HasReturned(1)
    /\ cursor[1] = "no_description"
    /\ sql_query[1] = <<"P","R","A","G","M","A"," ","x">>
    /\ results[1] = << >>
    /\ error[1] = None

(***************************************************************************)
(* The query log's contract.                                               *)
(***************************************************************************)
\* the step in which turn p's log_query call rewrites the store and returns
RewriteBy(p) ==
    /\ pc[p] \in {"log_write", "exc_log_write"}
    /\ pc'[p] \notin {"log_write", "exc_log_write"}

\* the rewrite of that step succeeded: open() and json.dump() both did
RewriteSucceeded == LOG_FILE.writable /\ LOG_FILE'.kind = "list"

\* the store can be read and written and holds a log, or nothing yet
Healthy(store) ==
    /\ store.readable
    /\ store.writable
    /\ store.kind \in {"absent", "list"}

\* the sequence a call of get_logs() returns, empty when it returns no list
ReadAll(store) ==
    LET r == get_logs(store)
    IN  IF r.raised \/ ~r.is_list THEN << >> ELSE r.value

\* C7: log_query followed by get_logs() yields what get_logs() returned
\* before with the new entry appended last, the earlier entries unchanged
\* and in order (stated for a store that can be read and written and a
\* rewrite that succeeds).
C7_AppendThenReadAll ==
    [][ \A p \in Procs :
          (RewriteBy(p) /\ RewriteSucceeded /\ Healthy(LOG_FILE)) =>
             ReadAll(LOG_FILE') = Append(ReadAll(LOG_FILE), EntryOf(p)) ]_vars

\* a step of clear_history, told by the answer it leaves
ClearStep == hist'.op = "clear" /\ hist.op # "clear"

\* get_logs() returns the empty sequence
ReadsEmpty(store) ==
    LET r == get_logs(store)
    IN  ~r.raised /\ r.is_list /\ r.value = << >>

\* C8 as stated: after clear_logs(), get_logs() returns an empty sequence,
\* whatever the store held before: nothing, a valid log or corrupt text.
C8_ClearThenReadAllIsEmpty ==
    [][ (ClearStep /\ LOG_FILE.kind \in {"absent", "list", "corrupt"}) =>
           ReadsEmpty(LOG_FILE') ]_vars

\* C8 as amended: after a clear_logs() that can open the store for writing,
\* get_logs() returns an empty sequence, whatever the store held (absent, a
\* log, corrupt text, other JSON); a store that cannot be opened for writing
\* is left as it was.
C8_ClearOfWritableStoreThenReadAllIsEmpty ==
    [][ ClearStep =>
           IF LOG_FILE.writable
           THEN ReadsEmpty(LOG_FILE')
           ELSE LOG_FILE' = LOG_FILE ]_vars

\* /history was cleared although a turn had logged an entry, and the log
\* reads empty
C8_Witness ==
    /\ hist.op = "clear"
    /\ \E p \in Procs : pc[p] = "responded"
    /\ LOG_FILE.kind = "list"
    /\ LOG_FILE.entries = << >>

\* C9: get_logs() never raises; it returns the stored sequence when the
\* store is present, readable and well-formed, and an empty sequence when
\* the file is absent, is not parseable or cannot be read.
C9_GetLogsNeverRaises ==
    LET r == get_logs(LOG_FILE)
    IN  /\ ~r.raised
        /\ hist.success
        /\ (LOG_FILE.kind = "list" /\ LOG_FILE.readable) =>
              (r.is_list /\ r.value = LOG_FILE.entries)
        /\ (LOG_FILE.kind = "absent" \/ LOG_FILE.kind = "corrupt"
              \/ (LOG_FILE.kind # "absent" /\ ~LOG_FILE.readable)) =>
              (r.is_list /\ r.value = << >>)

\* /history has answered a read of a store whose file exists and cannot be
\* read, and a turn went on to rewrite the log it loaded from that store
C9_Witness ==
    /\ hist.op = "get"
    /\ hist.success
    /\ LOG_FILE.kind # "absent"
    /\ ~LOG_FILE.readable
    /\ \E p \in Procs : pc[p] = "log_write" /\ logs[p] = << >>

\* C10: the load and rewrite steps of distinct log_query calls do not
\* interleave, so no call's rewrite loses an entry another call has stored.
C10_NoLostUpdate ==
    [][ \A p \in Procs :
          (RewriteBy(p) /\ RewriteSucceeded /\ Healthy(LOG_FILE)) =>
             \A i \in 1..Len(LOG_FILE.entries) :
                \E j \in 1..Len(LOG_FILE'.entries) :
                   LOG_FILE'.entries[j] = LOG_FILE.entries[i] ]_vars

(***************************************************************************)
(* The turn's contract: its stages, its log entry, its response.           *)
(***************************************************************************)
\* the response of turn p has left chat()
Answered(p) == pc[p] \in {"responded", "viz", "done"}

\* the statement of turn p was executed and its rows, if any, fetched
ExecutedWell(p) == cursor[p] \in {"no_description", "no_rows", "rows"}

\* what run_sql_query handed back for the statement turn p executed
BackendReturn(p) ==
    IF DB_TYPE = "sqlite" THEN execute_query_sqlite(cursor[p])
    ELSE execute_query_mysql(cursor[p])

\* C11: a log store that cannot be read, cannot be written or holds
\* unexpected content never changes the outcome of a turn: a turn whose
\* query executed successfully is answered success=true with its results.
C11_LogFailureNeverFailsTurn ==
    \A p \in Procs :
       (Answered(p) /\ ExecutedWell(p)) =>
          response[p] =
             ChatResponse(TRUE, sql_query[p], BackendReturn(p)[1], None)

\* the failure response or the error of turn p is set by this step
FailureReturned(p) ==
    /\ response'[p] # response[p]
    /\ response'[p].status # 400
    /\ response'[p].status = 200 => ~response'[p].success

\* the positions of the except block of chat()
InExcept(p) == pc[p] \in {"exc_log_load", "exc_log_write", "raise"}

\* C12: a turn that ends in failure, at whatever stage, has written one
\* success=false log entry before its response is returned: the failure
\* leaves chat() from the step after a log_query call that returned, whose
\* entry says success=false; and once a stage has failed no later stage runs.
C12_FailureIsLoggedBeforeResponse ==
    [][\A p \in Procs :
         /\ FailureReturned(p) => pc[p] \in {"respond", "raise"}
         /\ (pc[p] \in {"log_write", "exc_log_write"} /\ Truthy(error[p])) =>
               ~EntryOf(p).success
         /\ InExcept(p) => (pc'[p] = "responded" \/ InExcept(p)')]_vars

\* run_sql_query rejected the statement of turn p without executing it
Rejected(p) ==
    /\ ~BeforeValidation(p)
    /\ TruthySeq(sql_query[p])
    /\ validate_sql_safety(sql_query[p]) # None

\* the driver failed on the statement of turn p
DriverFailed(p) == cursor[p] \in {"driver_error", "other_error"}

\* the message run_sql_query returned for the failure
FailureMessage(p) ==
    IF Rejected(p) THEN validate_sql_safety(sql_query[p])
    ELSE BackendReturn(p)[2]

\* C13: a rejected or failed query is answered success=false with the
\* message, its log entry says success=false with the same message, and a
\* rejection is told from a driver failure by the message.
C13_FailureCarriesMessage ==
    \A p \in Procs :
       (Rejected(p) \/ DriverFailed(p)) =>
          /\ Answered(p) =>
                response[p] =
                   ChatResponse(FALSE, sql_query[p], NoneSeq, FailureMessage(p))
          /\ pc[p] = "log_write" =>
                /\ ~EntryOf(p).success
                /\ EntryOf(p).error_message = FailureMessage(p)
          /\ (FailureMessage(p) \in {AllowListError, ChainedError})
                <=> Rejected(p)

\* the stage of the turn a position of chat() or of the client belongs to
StageOf(at) ==
    CASE at = "idle" -> 0
      [] at = "reformulate" -> 1
      [] at = "retrieve" -> 2
      [] at = "generate" -> 3
      [] at = "validate" -> 4
      [] at \in {"connect", "cursor", "execute", "close"} -> 5
      [] at \in {"log_load", "log_write", "respond",
                 "exc_log_load", "exc_log_write", "raise"} -> 6
      [] at = "responded" -> 7
      [] at = "viz" -> 8
      [] at = "done" -> 9

\* C14: the stages of a turn run in the order reformulation, schema
\* retrieval, generation, validation, execution or rejection, log,
\* visualization analysis, done; execution starts only from a validation
\* that found the query safe; the log step starts only once the outcome is
\* known; the response of an accepted question is returned only from the log
\* step; the visualization follows the response.
C14_StagesRunInOrder ==
    [][\A p \in Procs :
         /\ StageOf(pc'[p]) >= StageOf(pc[p])
         /\ (pc'[p] = "connect" /\ pc[p] # "connect") =>
               /\ pc[p] = "validate"
               /\ validate_sql_safety(sql_query[p]) = None
         /\ (pc'[p] = "log_load" /\ pc[p] # "log_load") =>
               (Truthy(error'[p]) \/ results'[p] # NoneSeq)
         /\ (response'[p] # response[p] /\ pc[p] # "idle") =>
               pc[p] \in {"respond", "raise"}
         /\ (pc'[p] = "viz" /\ pc[p] # "viz") => pc[p] = "responded"]_vars

\* C19: the visualization stage runs only for a turn whose execution
\* succeeded and returned at least one row.
C19_VisualizationNeedsRows ==
    \A p \in Procs :
       pc[p] = "viz" =>
          /\ response[p].status = 200
          /\ response[p].success
          /\ Len(response[p].results) >= 1
          /\ response[p].results = results[p]
          /\ cursor[p] = "rows"

\* a turn whose statement returned a row is at the visualization stage
C19_Witness ==
    /\ pc[1] = "viz"
    /\ cursor[1] = "rows"
    /\ response[1].results = SomeRows

(***************************************************************************)
(* The validator as a function of the folded text.                         *)
(***************************************************************************)
\* the letter c in its other case, as str.swapcase() gives it
SwapCase(c) == IF IsLower(c) THEN UpperChar(c) ELSE LowerChar(c)

\* the texts that differ from q in leading or trailing whitespace or in the
\* letter case of some characters only, and q itself for a repeated call
Variants(q) ==
    { q, Strip(q), <<" ">> \o q, q \o <<"\n">>, <<"\t", " ">> \o q \o <<"\r">>,
      Upper(q), Lower(q) }
    \cup { [q EXCEPT ![i] = SwapCase(q[i])] : i \in 1..Len(q) }

\* C28: the verdict and the reason validate_sql_safety gives for a query are
\* those it gives for the query with leading or trailing whitespace added or
\* removed, with the letter case of any characters changed, and for the same
\* query once more.
C28_VerdictDependsOnFoldedText ==
    vpc = "done" =>
       \A v \in Variants(query) : validate_sql_safety(v) = verdict

(***************************************************************************)
(* Clearing the log, and what an interrupted rewrite leaves.               *)
(***************************************************************************)
\* a step of clear_history(), the first or a later one
ClearCall == hist'.op = "clear" /\ pc' = pc

\* C22: clear_logs applied twice leaves the store as applied once does, to
\* the letter when both runs end alike and as the sequence get_logs() reads
\* whatever the second run does; on a store that can be written that
\* sequence is empty and the clear reports success, so that a failure is
\* reported only for a store that cannot be written.
C22_ClearIsIdempotent ==
    [][ ClearCall =>
          /\ LOG_FILE.writable => (hist'.success /\ ReadsEmpty(LOG_FILE'))
          /\ ~hist'.success => ~LOG_FILE.writable
          /\ \A o \in WriteOutcomes :
                /\ ReadAll(clear_logs(LOG_FILE', o)) = ReadAll(LOG_FILE')
                /\ LOG_FILE' = clear_logs(LOG_FILE, o) =>
                      clear_logs(LOG_FILE', o) = LOG_FILE' ]_vars

\* every turn has logged its entry to a store that can be written, and a
\* clear after them has left the empty log
C22_Witness ==
    /\ hist.op = "clear"
    /\ hist.success
    /\ \A p \in Procs : pc[p] = "responded"
    /\ LOG_FILE = StoreOf("list", << >>, TRUE, TRUE)

\* C23: an append whose write fails or is interrupted leaves the store
\* holding the prior sequence, or the prior sequence with the new entry: a
\* log_query call that rewrites the store it has just loaded, no other call
\* between, never leaves a log that has lost earlier entries.
C23_FailedAppendKeepsEntries ==
    [][ \A p \in Procs :
          (RewriteBy(p) /\ logs[p] = ReadAll(LOG_FILE)) =>
             ReadAll(LOG_FILE') \in
                { ReadAll(LOG_FILE), Append(ReadAll(LOG_FILE), EntryOf(p)) }
      ]_vars

(***************************************************************************)
(* The query text on its way through a turn.                               *)
(***************************************************************************)
\* run_sql_query has been called with the text of turn p
GivenToRunSql(p) == ~BeforeValidation(p) /\ TruthySeq(sql_query[p])

\* C21: the validator never alters the query it checks: from the call of
\* run_sql_query on, the text of the turn stays what it was, and the text
\* handed to cursor.execute, the sql_query of the response and the sql_query
\* of the log entry are that text, character for character.
C21_QueryIsNeverAltered ==
    /\ [](\A p \in Procs :
            GivenToRunSql(p) =>
               /\ cursor[p] # "none" =>
                     [query |-> sql_query[p], by |-> "database.run_sql_query"]
                        \in executed
               /\ pc[p] = "log_write" => EntryOf(p).sql_query = sql_query[p]
               /\ (Answered(p) /\ response[p].status = 200) =>
                     response[p].sql_query = sql_query[p])
    /\ [](\A e \in executed :
            e.by = "database.run_sql_query" =>
               \E p \in Procs : GivenToRunSql(p) /\ e.query = sql_query[p])
    /\ [][\A p \in Procs :
            (pc[p] = "validate" \/ GivenToRunSql(p)) =>
               sql_query'[p] = sql_query[p]]_vars

\* a statement written in mixed case was executed, logged and answered
C21_Witness ==
    /\ Answered(1)
    /\ sql_query[1] = <<"S","E","L","E","C","T"," ","x">>
    /\ response[1].status = 200
    /\ response[1].sql_query = sql_query[1]
    /\ [query |-> sql_query[1], by |-> "database.run_sql_query"] \in executed
    /\ LOG_FILE.kind = "list"
    /\ \E i \in 1..Len(LOG_FILE.entries) :
          /\ LOG_FILE.entries[i].question = question[1]
          /\ LOG_FILE.entries[i].sql_query = sql_query[1]

(***************************************************************************)
(* The contract of render_chart.                                           *)
(***************************************************************************)
\* the proposal is the reserved marker pair, on a result of a single row
ReservedPair(df, config) ==
    /\ config.x_axis = "__columns__"
    /\ config.y_axis = "__values__"
    /\ df.rows = 1

OwnState(p) ==
    <<sql_query[p], conn[p], handle[p], results[p], error[p], cursor[p],
      response[p]>>

\* C25: within a turn the SQL generator and run_sql_query are each entered
\* once and never again, a turn gets its connection object once, from
\* get_db_connection in its own run_sql_query call, the object is a new one,
\* it is the one the turn executes on, and no two turns hold the same object.
C25_NoRetryNoConnectionReuse ==
    /\ [](\A p \in Procs :
            /\ conn[p] # "none" <=> handle[p] # 0
            /\ cursor[p] # "none" => handle[p] # 0
            /\ \A r \in Procs \ {p} : handle[p] # 0 => handle[r] # handle[p])
    /\ [][\A p \in Procs :
            /\ StageOf(pc'[p]) >= StageOf(pc[p])
            /\ (pc[p] \in {"generate", "validate", "connect"}
                   /\ pc'[p] = pc[p]) => OwnState(p)' = OwnState(p)
            /\ handle'[p] # handle[p] =>
                  /\ handle[p] = 0
                  /\ pc[p] = "connect"
                  /\ validate_sql_safety(sql_query[p]) = None
                  /\ handle'[p] \notin Connections ]_vars

\* two turns run their statements at the same time, each on its own
\* connection
C25_Witness ==
    /\ pc[1] = "close"
    /\ pc[2] = "close"
    /\ conn[1] = "open"
    /\ conn[2] = "open"
    /\ handle[1] # 0
    /\ handle[2] # 0
    /\ handle[1] # handle[2]

(***************************************************************************)
(* Success of a turn and what run_sql_query returned.                      *)
(***************************************************************************)
\* run_sql_query returned a row sequence to turn p, and so no error
ReturnedRows(p) == results[p] # NoneSeq

\* C26: once run_sql_query has returned, the response says success=true if
\* and only if it returned a row sequence, and so does the log entry; when
\* it returned no row sequence the response says success=false and carries
\* an error that is not empty.
C26_SuccessIffRowsReturned ==
    \A p \in Procs :
       GivenToRunSql(p) =>
          /\ Answered(p) =>
                /\ (response[p].status = 200 /\ response[p].success)
                      <=> ReturnedRows(p)
                /\ ~ReturnedRows(p) =>
                      /\ response[p].status = 200
                      /\ ~response[p].success
                      /\ Truthy(response[p].error)
          /\ pc[p] \in {"log_write", "exc_log_write"} =>
                (EntryOf(p).success <=> ReturnedRows(p))

(***************************************************************************)
(* The entries of the stored log.                                          *)
(***************************************************************************)
\* the entries the file holds, none when it holds no list
StoredLog == IF LOG_FILE.kind = "list" THEN LOG_FILE.entries ELSE << >>

EntryFields ==
    {"timestamp", "question", "sql_query", "success", "error_message"}

\* turn r has left its log_query call: what it logged, it logged before
HasLogged(r) == pc[r] \in {"respond", "raise", "responded", "viz", "done"}

\* e was logged by turn r
EntryOfTurn(e, r) == e.question = question[r]

\* C27: whatever turns and clears have run, every entry of the stored log
\* has the five fields, and every success=true entry has no error_message
\* and the non-empty sql_query that was executed for its turn; the entries
\* stand in the order their turns logged them: a call loads what the store
\* holds, and its rewrite stores that list, made of entries of turns that
\* have logged before, with its own entry last; a clear stores nothing new.
C27_StoredEntriesAreWellFormed ==
    /\ [](\A i \in 1..Len(StoredLog) :
            LET e == StoredLog[i]
            IN  /\ DOMAIN e = EntryFields
                /\ e.success =>
                      /\ e.error_message = None
                      /\ TruthySeq(e.sql_query)
                      /\ \/ e = OldEntry
                         \/ \E p \in Procs :
                               /\ EntryOfTurn(e, p)
                               /\ e.sql_query = sql_query[p]
                               /\ [query |-> e.sql_query,
                                   by |-> "database.run_sql_query"] \in executed)
    /\ [][\A p \in Procs :
            /\ (pc[p] \in {"log_load", "exc_log_load"}
                   /\ pc'[p] \in {"log_write", "exc_log_write"}) =>
                  logs'[p] = ReadAll(LOG_FILE)
            /\ (RewriteBy(p) /\ RewriteSucceeded) =>
                  /\ StoredLog' = Append(logs[p], EntryOf(p))
                  /\ \A i \in 1..Len(logs[p]) :
                        \/ logs[p][i] = OldEntry
                        \/ \E r \in Procs \ {p} :
                              HasLogged(r) /\ EntryOfTurn(logs[p][i], r)
            /\ (RewriteBy(p) /\ ~RewriteSucceeded) =>
                  StoredLog' \in {StoredLog, << >>} ]_vars
    /\ [][ClearCall => StoredLog' \in {StoredLog, << >>}]_vars

\* the log of an earlier run holds, after its entry, the success entry of
\* turn 1 and then the failure entry of turn 2
C27_Witness ==
    /\ Len(StoredLog) = 3
    /\ StoredLog[1] = OldEntry
    /\ EntryOfTurn(StoredLog[2], 1)
    /\ StoredLog[2].success
    /\ EntryOfTurn(StoredLog[3], 2)
    /\ ~StoredLog[3].success
    /\ HasLogged(1)
    /\ HasLogged(2)

=============================================================================
